---- MODULE Spec2Model ----
(***************************************************************************)
(* TaskQueue of src/code/task-queue.js: a promise based queue with a       *)
(* concurrency limit, priorities, a per-task timeout and lifecycle events. *)
(*                                                                         *)
(* JavaScript runs every handler to completion, so each public method and  *)
(* each resumption of an async function is one atomic action.  A task is   *)
(* identified by its submission number: task t is the t-th call of add().  *)
(***************************************************************************)
EXTENDS Integers, Sequences, FiniteSets, TLC

\* ------------------------------------------------------------- bounds
MaxTasks == 3          \* calls of add() in one run
MaxWaiters == 1        \* pending onIdle() promises, and pending onEmpty() promises

\* ------------------------------------------------------------- inputs
Concurrencies == {1, 2}
TimeoutValues == {0, 50}
Priorities == {1, 2}

\* ------------------------------------------------------------- values
\* Each task's operation has its own result and its own error, as the
\* mockApiCall(name, delay) of the usage example resolves `${name} result`.
ResultOf(t) == <<"result", t>>
ErrorOf(t) == <<"error", t>>
TimeoutError == <<"TimeoutError", 0>>
NoValue == <<"undefined", 0>>

VARIABLES
    concurrency,     \* this.concurrency
    timeout,         \* this.timeout
    throwOnTimeout,  \* this.throwOnTimeout
    autoStart,       \* this.autoStart
    taskQueue,       \* this.taskQueue: entries {task, resolve, reject, priority}
    runningTasks,    \* this.runningTasks
    paused,          \* this.paused
    future,          \* future[t]: the promise returned by the t-th add()
    operation,       \* operation[t]: the promise returned by task()
    wrapper,         \* wrapper[t]: the promise returned by withTimeout()
    timer,           \* timer[t]: the setTimeout() of withTimeout()
    runTaskPc,       \* runTaskPc[t]: position of the async runTask() call
    idleListeners,   \* once("idle", resolve) listeners: pending onIdle() promises
    emptyListeners,  \* once("empty", resolve) listeners: pending onEmpty() promises
    returned,        \* the promise the last handler returned, as it returned it
    emitted,         \* events emitted by the last handler, in order
    started,         \* entries the last handler passed to runTask(), in order
    lastOp           \* the handler that ran last

config == <<concurrency, timeout, throwOnTimeout, autoStart>>
vars == <<concurrency, timeout, throwOnTimeout, autoStart, taskQueue,
          runningTasks, paused, future, operation, wrapper, timer,
          runTaskPc, idleListeners, emptyListeners, returned, emitted, started,
          lastOp>>

Tasks == 1..Len(future)

\* ------------------------------------------------------------- promises
Pending == [state |-> "pending", value |-> NoValue]
Fulfilled(v) == [state |-> "fulfilled", value |-> v]
Rejected(e) == [state |-> "rejected", value |-> e]
NotCreated == [state |-> "notcreated", value |-> NoValue]

\* resolve()/reject() of a promise: only a pending promise changes.
Settle(p, outcome) == IF p.state = "pending" THEN outcome ELSE p

\* The ways the operation of task t can settle.
Outcomes(t) == {Fulfilled(ResultOf(t)), Rejected(ErrorOf(t))}

\* ------------------------------------------------------------- events
\* An emission: the event, its argument, the counters as they are at the
\* emission and the number of the queue's own once() listeners it calls.
Event(name, arg, running, waiting, listeners) ==
    [event |-> name, arg |-> arg, runningTasks |-> running,
     waiting |-> waiting, listeners |-> listeners]

\* ------------------------------------------------------------- add: sort
\* Mutant of InsertStable: the comparator is b.priority - a.priority.
RECURSIVE InsertStableDescending(_, _)
InsertStableDescending(s, e) ==
    IF s = <<>> THEN <<e>>
    ELSE IF e.priority - Head(s).priority <= 0
         THEN <<Head(s)>> \o InsertStableDescending(Tail(s), e)
         ELSE <<e>> \o s

\* Mutant of InsertStable: an entry overtakes the entries of its own
\* priority, as an unstable sort may place it.
RECURSIVE InsertStableBeforeEquals(_, _)
InsertStableBeforeEquals(s, e) ==
    IF s = <<>> THEN <<e>>
    ELSE IF Head(s).priority - e.priority < 0
         THEN <<Head(s)>> \o InsertStableBeforeEquals(Tail(s), e)
         ELSE <<e>> \o s

RECURSIVE InsertStable(_, _)
\* Position of entry e in a sorted sequence s: after every entry whose
\* priority is not greater (the comparator a.priority - b.priority of a
\* stable sort).
InsertStable(s, e) ==
    IF s = <<>> THEN <<e>>
    ELSE IF Head(s).priority - e.priority <= 0
         THEN <<Head(s)>> \o InsertStable(Tail(s), e)
         ELSE <<e>> \o s

\* Mutant of SortByPriority: add() pushes and does not sort.
SortByPriorityUnsorted(q) == q

RECURSIVE SortByPriority(_)
SortByPriority(q) ==
    IF q = <<>> THEN <<>>
    ELSE InsertStable(SortByPriority(SubSeq(q, 1, Len(q) - 1)), q[Len(q)])

\* ------------------------------------------------------------- handlers
\* The mutable state a handler works on; a handler's code is a chain of
\* updates on this record, committed at the end of the atomic action.
Machine ==
    [queue |-> taskQueue, running |-> runningTasks, future |-> future,
     operation |-> operation, wrapper |-> wrapper, timer |-> timer,
     pc |-> runTaskPc, idle |-> idleListeners, empty |-> emptyListeners,
     returned |-> NotCreated, emitted |-> <<>>, started |-> <<>>]

Commit(m) ==
    /\ taskQueue' = m.queue
    /\ runningTasks' = m.running
    /\ future' = m.future
    /\ operation' = m.operation
    /\ wrapper' = m.wrapper
    /\ timer' = m.timer
    /\ runTaskPc' = m.pc
    /\ idleListeners' = m.idle
    /\ emptyListeners' = m.empty
    /\ returned' = m.returned
    /\ emitted' = m.emitted
    /\ started' = m.started

\* this.emit(name, arg): the listeners run synchronously.  The only
\* listeners the queue itself registers are the once("idle", resolve) of
\* onIdle() and the once("empty", resolve) of onEmpty(): an emission calls
\* and removes them, which resolves their promises.
Emit(m, name, arg) ==
    LET called == IF name = "idle" THEN m.idle
                  ELSE IF name = "empty" THEN m.empty ELSE 0
        logged == [m EXCEPT !.emitted =
                       Append(@, Event(name, arg, m.running, Len(m.queue),
                                       called))]
    IN  IF name = "idle" THEN [logged EXCEPT !.idle = 0]
        ELSE IF name = "empty" THEN [logged EXCEPT !.empty = 0]
        ELSE logged

\* withTimeout(task, timeout) up to its return: the timer is armed, task()
\* is called, the wrapper promise is pending.
WithTimeout(m, t) ==
    [m EXCEPT !.timer[t] = "armed",
              !.operation[t] = Pending,
              !.wrapper[t] = Pending]

\* runTask(task, resolve, reject) up to its first await.
RunTaskStart(m, t, tmo) ==
    LET counted == [m EXCEPT !.running = @ + 1]
        active == Emit(counted, "active", NoValue)
        called == IF tmo > 0 THEN WithTimeout(active, t)
                  ELSE [active EXCEPT !.operation[t] = Pending]
    IN  [called EXCEPT !.pc[t] = "await"]

\* Mutant of ProcessQueue: the limit is tested with <= instead of <.
RECURSIVE ProcessQueueOffByOne(_, _, _, _)
ProcessQueueOffByOne(m, p, c, tmo) ==
    IF ~p /\ m.running <= c /\ Len(m.queue) > 0
    THEN LET entry == Head(m.queue)
             shifted == [m EXCEPT !.queue = Tail(@),
                                  !.started = Append(@, entry)]
         IN  ProcessQueueOffByOne(RunTaskStart(shifted, entry.task, tmo),
                                  p, c, tmo)
    ELSE m

\* Mutant of ProcessQueue: the loop does not test the concurrency limit.
RECURSIVE ProcessQueueNoLimit(_, _, _, _)
ProcessQueueNoLimit(m, p, c, tmo) ==
    IF ~p /\ Len(m.queue) > 0
    THEN LET entry == Head(m.queue)
             shifted == [m EXCEPT !.queue = Tail(@),
                                  !.started = Append(@, entry)]
         IN  ProcessQueueNoLimit(RunTaskStart(shifted, entry.task, tmo),
                                 p, c, tmo)
    ELSE m

RECURSIVE ProcessQueue(_, _, _, _)
\* processQueue(): p, c, tmo are this.paused, this.concurrency, this.timeout.
ProcessQueue(m, p, c, tmo) ==
    IF ~p /\ m.running < c /\ Len(m.queue) > 0
    THEN LET entry == Head(m.queue)
             shifted == [m EXCEPT !.queue = Tail(@),
                                  !.started = Append(@, entry)]
         IN  ProcessQueue(RunTaskStart(shifted, entry.task, tmo), p, c, tmo)
    ELSE m

\* The promise runTask() awaits: withTimeout()'s or task()'s own.
Awaited(t) == IF timeout > 0 THEN wrapper[t] ELSE operation[t]

\* Mutant of RunTaskSettle: a failure also drops the waiting entries.
RunTaskSettleAborting(m, t, outcome) ==
    IF outcome.state = "fulfilled"
    THEN Emit([m EXCEPT !.future[t] = Settle(@, Fulfilled(outcome.value))],
              "completed", outcome.value)
    ELSE Emit([m EXCEPT !.future[t] = Settle(@, Rejected(outcome.value)),
                        !.queue = <<>>],
              "error", outcome.value)

\* The try/catch of runTask() after the await.
RunTaskSettle(m, t, outcome) ==
    IF outcome.state = "fulfilled"
    THEN Emit([m EXCEPT !.future[t] = Settle(@, Fulfilled(outcome.value))],
              "completed", outcome.value)
    ELSE Emit([m EXCEPT !.future[t] = Settle(@, Rejected(outcome.value))],
              "error", outcome.value)

\* Mutant of RunTaskFinally: the idle test looks at runningTasks only.
RunTaskFinallyIdleOnRunning(m, p, c, tmo) ==
    LET released == [m EXCEPT !.running = @ - 1]
        pulled == IF ~p THEN ProcessQueue(released, p, c, tmo) ELSE released
        idled == IF pulled.running = 0
                 THEN Emit(pulled, "idle", NoValue) ELSE pulled
    IN  Emit(idled, "next", NoValue)

\* Mutant of RunTaskFinally: the finally dispatches whether or not the
\* queue is paused.
RunTaskFinallyIgnoringPause(m, p, c, tmo) ==
    LET released == [m EXCEPT !.running = @ - 1]
        pulled == ProcessQueue(released, FALSE, c, tmo)
        idled == IF Len(pulled.queue) = 0 /\ pulled.running = 0
                 THEN Emit(pulled, "idle", NoValue) ELSE pulled
    IN  Emit(idled, "next", NoValue)

\* Mutant of RunTaskFinally: processQueue() runs before runningTasks--.
RunTaskFinallyDispatchFirst(m, p, c, tmo) ==
    LET pulled == IF ~p THEN ProcessQueue(m, p, c, tmo) ELSE m
        released == [pulled EXCEPT !.running = @ - 1]
        idled == IF Len(released.queue) = 0 /\ released.running = 0
                 THEN Emit(released, "idle", NoValue) ELSE released
    IN  Emit(idled, "next", NoValue)

\* Mutant of RunTaskFinally: the slot is released twice, as by a
\* runningTasks-- in the catch and another in the finally.
RunTaskFinallyDoubleRelease(m, p, c, tmo) ==
    LET released == [m EXCEPT !.running = @ - 2]
        pulled == IF ~p THEN ProcessQueue(released, p, c, tmo) ELSE released
        idled == IF Len(pulled.queue) = 0 /\ pulled.running = 0
                 THEN Emit(pulled, "idle", NoValue) ELSE pulled
    IN  Emit(idled, "next", NoValue)

\* The finally of runTask().
RunTaskFinally(m, p, c, tmo) ==
    LET released == [m EXCEPT !.running = @ - 1]
        pulled == IF ~p THEN ProcessQueue(released, p, c, tmo) ELSE released
        idled == IF Len(pulled.queue) = 0 /\ pulled.running = 0
                 THEN Emit(pulled, "idle", NoValue) ELSE pulled
    IN  Emit(idled, "next", NoValue)

\* ------------------------------------------------------------- actions
Init ==
    /\ concurrency \in Concurrencies
    /\ timeout \in TimeoutValues
    /\ throwOnTimeout \in BOOLEAN
    /\ autoStart \in BOOLEAN
    /\ taskQueue = <<>>
    /\ runningTasks = 0
    /\ paused = ~autoStart
    /\ future = <<>>
    /\ operation = <<>>
    /\ wrapper = <<>>
    /\ timer = <<>>
    /\ runTaskPc = <<>>
    /\ idleListeners = 0
    /\ emptyListeners = 0
    /\ returned = NotCreated
    /\ emitted = <<>>
    /\ started = <<>>
    /\ lastOp = "new"

\* add(task, {priority: prio})
Add(prio) ==
    LET t == Len(future) + 1
        created == [Machine EXCEPT !.returned = Pending,
                                   !.future = Append(@, Pending),
                                   !.operation = Append(@, NotCreated),
                                   !.wrapper = Append(@, NotCreated),
                                   !.timer = Append(@, "none"),
                                   !.pc = Append(@, "notcalled")]
        pushed == [created EXCEPT !.queue =
                       Append(@, [task |-> t, priority |-> prio])]
        sorted == [pushed EXCEPT !.queue = SortByPriority(@)]
        added == Emit(sorted, "add", NoValue)
    IN  /\ Commit(IF autoStart /\ ~paused
                  THEN ProcessQueue(added, paused, concurrency, timeout)
                  ELSE added)
        /\ lastOp' = "add"
        /\ UNCHANGED <<config, paused>>

\* pause()
Pause ==
    /\ paused' = TRUE
    /\ Commit(Machine)
    /\ lastOp' = "pause"
    /\ UNCHANGED <<config>>

\* Mutant of Start: processQueue() is called whether or not the queue was
\* paused.
StartAlwaysDispatches ==
    /\ paused' = FALSE
    /\ Commit(ProcessQueue(Machine, FALSE, concurrency, timeout))
    /\ lastOp' = "start"
    /\ UNCHANGED <<config>>

\* start()
Start ==
    /\ IF paused
       THEN /\ paused' = FALSE
            /\ Commit(ProcessQueue(Machine, FALSE, concurrency, timeout))
       ELSE /\ paused' = paused
            /\ Commit(Machine)
    /\ lastOp' = "start"
    /\ UNCHANGED <<config>>

\* Mutant of Clear: the futures of the dropped entries are rejected.
ClearRejecting ==
    /\ Commit([Machine EXCEPT
                  !.queue = <<>>,
                  !.future = [t \in DOMAIN future |->
                                 IF \E i \in 1..Len(taskQueue) :
                                        taskQueue[i].task = t
                                 THEN Rejected(NoValue) ELSE future[t]]])
    /\ lastOp' = "clear"
    /\ UNCHANGED <<config, paused>>

\* clear()
Clear ==
    /\ Commit([Machine EXCEPT !.queue = <<>>])
    /\ lastOp' = "clear"
    /\ UNCHANGED <<config, paused>>

\* onEmpty()
OnEmpty ==
    /\ Commit(IF Len(taskQueue) = 0
              THEN [Machine EXCEPT !.returned = Fulfilled(NoValue)]
              ELSE [Machine EXCEPT !.returned = Pending, !.empty = @ + 1])
    /\ lastOp' = "onEmpty"
    /\ UNCHANGED <<config, paused>>

\* onIdle()
OnIdle ==
    /\ Commit(IF Len(taskQueue) = 0 /\ runningTasks = 0
              THEN [Machine EXCEPT !.returned = Fulfilled(NoValue)]
              ELSE [Machine EXCEPT !.returned = Pending, !.idle = @ + 1])
    /\ lastOp' = "onIdle"
    /\ UNCHANGED <<config, paused>>

\* Mutant of OperationSettles: the operation's outcome replaces the
\* wrapper's, whatever the wrapper already is.
OperationSettlesOverrides(t, outcome) ==
    /\ operation[t].state = "pending"
    /\ LET settled == [Machine EXCEPT !.operation[t] = outcome]
       IN  Commit(IF timeout > 0
                  THEN [settled EXCEPT
                           !.wrapper[t] = outcome,
                           !.timer[t] = IF @ = "armed" THEN "cleared" ELSE @]
                  ELSE settled)
    /\ lastOp' = "operationSettles"
    /\ UNCHANGED <<config, paused>>

\* Mutant of OperationSettles: the wrapper is resolved without the
\* operation's value, then(() => resolve(), reject).
OperationSettlesDropsValue(t, outcome) ==
    /\ operation[t].state = "pending"
    /\ LET settled == [Machine EXCEPT !.operation[t] = outcome]
           passed == IF outcome.state = "fulfilled"
                     THEN Fulfilled(NoValue) ELSE outcome
       IN  Commit(IF timeout > 0
                  THEN [settled EXCEPT
                           !.wrapper[t] = Settle(@, passed),
                           !.timer[t] = IF @ = "armed" THEN "cleared" ELSE @]
                  ELSE settled)
    /\ lastOp' = "operationSettles"
    /\ UNCHANGED <<config, paused>>

\* The promise returned by task t's operation settles.  With a timeout its
\* then(resolve, reject) settles the wrapper and its finally clears the
\* timer, both before any timer can fire.
OperationSettles(t, outcome) ==
    /\ operation[t].state = "pending"
    /\ LET settled == [Machine EXCEPT !.operation[t] = outcome]
       IN  Commit(IF timeout > 0
                  THEN [settled EXCEPT
                           !.wrapper[t] = Settle(@, outcome),
                           !.timer[t] = IF @ = "armed" THEN "cleared" ELSE @]
                  ELSE settled)
    /\ lastOp' = "operationSettles"
    /\ UNCHANGED <<config, paused>>

\* The setTimeout() callback of withTimeout() runs.
TimerFires(t) ==
    /\ timer[t] = "armed"
    /\ Commit([Machine EXCEPT !.timer[t] = "fired",
                              !.wrapper[t] = Settle(@, Rejected(TimeoutError))])
    /\ lastOp' = "timerFires"
    /\ UNCHANGED <<config, paused>>

\* Mutant of RunTaskResumes: the settlement code runs for every settlement
\* of the awaited promise's sources, also after it has already run.
RunTaskResumesAgain(t) ==
    /\ runTaskPc[t] # "notcalled"
    /\ Awaited(t).state \in {"fulfilled", "rejected"}
    /\ runningTasks > -2
    /\ LET settled == RunTaskSettle(Machine, t, Awaited(t))
           done == RunTaskFinally(settled, paused, concurrency, timeout)
       IN  Commit([done EXCEPT !.pc[t] = "done"])
    /\ lastOp' = "runTaskResumes"
    /\ UNCHANGED <<config, paused>>

\* runTask() resumes after its await.
RunTaskResumes(t) ==
    /\ runTaskPc[t] = "await"
    /\ Awaited(t).state \in {"fulfilled", "rejected"}
    /\ LET settled == RunTaskSettle(Machine, t, Awaited(t))
           done == RunTaskFinally(settled, paused, concurrency, timeout)
       IN  Commit([done EXCEPT !.pc[t] = "done"])
    /\ lastOp' = "runTaskResumes"
    /\ UNCHANGED <<config, paused>>

Next ==
    \/ \E prio \in Priorities : Len(future) < MaxTasks /\ Add(prio)
    \/ Pause
    \/ Start
    \/ Clear
    \/ emptyListeners < MaxWaiters /\ OnEmpty
    \/ idleListeners < MaxWaiters /\ OnIdle
    \/ \E t \in Tasks : \E outcome \in Outcomes(t) : OperationSettles(t, outcome)
    \/ \E t \in Tasks : TimerFires(t)
    \/ \E t \in Tasks : RunTaskResumes(t)

Spec == Init /\ [][Next]_vars

TypeOK ==
    /\ runningTasks \in 0..MaxTasks
    /\ paused \in BOOLEAN
    /\ Len(operation) = Len(future)

\* ------------------------------------------------------------- fairness
\* The event loop runs every ready continuation and every due timer, and
\* the operations of the tasks are assumed to settle.
Resume(t) == t \in Tasks /\ RunTaskResumes(t)
Fire(t) == t \in Tasks /\ TimerFires(t)
Finish(t) == t \in Tasks /\ \E outcome \in Outcomes(t) : OperationSettles(t, outcome)

FairSpec ==
    /\ Spec
    /\ \A t \in 1..MaxTasks :
          WF_vars(Resume(t)) /\ WF_vars(Fire(t)) /\ WF_vars(Finish(t))

\* ------------------------------------------------------------- scenario
\* The usage example's submission pattern: tasks are submitted in order with
\* the priorities 2, 1, 2, 1, start() is called after the last submission,
\* and neither pause() nor clear() is called.
ScenarioPriorities == <<2, 1, 2, 1>>

InitScenario == Init /\ concurrency = 2

NextScenario ==
    \/ Len(future) < Len(ScenarioPriorities)
          /\ Add(ScenarioPriorities[Len(future) + 1])
    \/ Len(future) = Len(ScenarioPriorities) /\ Start
    \/ \E t \in Tasks : \E outcome \in Outcomes(t) : OperationSettles(t, outcome)
    \/ \E t \in Tasks : TimerFires(t)
    \/ \E t \in Tasks : RunTaskResumes(t)

SpecScenario == InitScenario /\ [][NextScenario]_vars

\* ------------------------------------------------------------- vocabulary
Waiting == {taskQueue[i].task : i \in 1..Len(taskQueue)}
HasStarted(t) == t \in Tasks /\ runTaskPc[t] # "notcalled"
InFlight == {t \in Tasks : runTaskPc[t] = "await"}
\* Added, not waiting and never passed to runTask(): dropped by clear().
Discarded == {t \in Tasks : t \notin Waiting /\ runTaskPc[t] = "notcalled"}
IsSettled(t) == t \in Tasks /\ future[t].state # "pending"
IsIdle == Len(taskQueue) = 0 /\ runningTasks = 0

\* ------------------------------------------------------------- claims

\* C1: the number of tasks started and not yet settled by the queue never
\* exceeds the concurrency limit, and runningTasks is that number.
C1_ConcurrencyBound ==
    /\ runningTasks <= concurrency
    /\ Cardinality(InFlight) <= concurrency

\* C1 witness: the limit is reached while a task is kept waiting on a
\* queue that is not paused.
C1_Witness ==
    /\ runningTasks = concurrency
    /\ Cardinality(InFlight) = concurrency
    /\ ~paused
    /\ Len(taskQueue) > 0

\* C3: every entry a handler removes from the waiting sequence and starts
\* has the least priority value of the entries waiting at that moment: it
\* is not greater than that of any entry started after it by the same
\* handler, nor than that of any entry left waiting.
C3_MinPriorityDispatched ==
    \A i \in 1..Len(started) :
        /\ \A j \in (i + 1)..Len(started) :
              started[i].priority <= started[j].priority
        /\ \A k \in 1..Len(taskQueue) :
              started[i].priority <= taskQueue[k].priority

\* C3 witness: a later submitted task of smaller priority value is started
\* while an earlier submitted task of greater priority value still waits.
C3_Witness ==
    /\ Len(started) > 0
    /\ \E k \in 1..Len(taskQueue) :
          /\ taskQueue[k].task < started[1].task
          /\ taskQueue[k].priority > started[1].priority

\* In the scenario: no priority-2 task has been started, or started earlier
\* by the same handler, unless both priority-1 tasks have been started.
PriorityOnesFirst ==
    \A t \in Tasks : \A u \in 1..Len(ScenarioPriorities) :
        (ScenarioPriorities[t] = 2 /\ ScenarioPriorities[u] = 1 /\ HasStarted(t))
            => /\ HasStarted(u)
               /\ \A i, j \in 1..Len(started) :
                     (started[i].task = t /\ started[j].task = u) => j < i

\* C4 as stated: once the four tasks are submitted, in every configuration
\* both priority-1 tasks are started before either priority-2 task.
C4_Original == Len(future) = Len(ScenarioPriorities) => PriorityOnesFirst

\* C4 amended: with autoStart = false, the four tasks submitted while the
\* queue is still paused and start() called after them, both priority-1
\* tasks are started before either priority-2 task.
C4_PausedSubmission ==
    (~autoStart /\ Len(future) = Len(ScenarioPriorities)) => PriorityOnesFirst

\* C4 witness: on an autoStart = false queue all four tasks have started.
C4_Witness ==
    /\ ~autoStart
    /\ Len(future) = Len(ScenarioPriorities)
    /\ \A t \in 1..Len(ScenarioPriorities) : HasStarted(t)

\* C2: in every run in which the queue is not paused from some point on,
\* clear() is never called and the operations settle (the fairness of
\* FairSpec), the future of every submitted task eventually settles.
C2_EveryFutureSettles ==
    (<>[](~paused) /\ [](lastOp # "clear"))
        => \A t \in 1..MaxTasks : (t \in Tasks) ~> IsSettled(t)

\* C5: an onIdle() on an idle queue returns a resolved promise, and a
\* pending onIdle() promise is eventually resolved once the queue is idle,
\* whichever operation made it idle.
C5_OnIdleResolves ==
    /\ []((lastOp = "onIdle" /\ IsIdle) => returned.state = "fulfilled")
    /\ (idleListeners > 0 /\ IsIdle) ~> (idleListeners = 0)

\* C6: whenever "idle" is emitted, and so whenever a pending onIdle()
\* promise is resolved, and whenever onIdle() returns a resolved promise,
\* the waiting sequence is empty and runningTasks is 0 at that moment, and
\* the handler starts no task after it.
C6_IdleOnlyWhenIdle ==
    /\ \A i \in 1..Len(emitted) :
          emitted[i].event = "idle" =>
              /\ emitted[i].runningTasks = 0
              /\ emitted[i].waiting = 0
              /\ \A j \in (i + 1)..Len(emitted) : emitted[j].event # "active"
              /\ IsIdle
    /\ (lastOp = "onIdle" /\ returned.state = "fulfilled") => IsIdle
    /\ (lastOp = "runTaskResumes" /\ IsIdle) => idleListeners = 0

\* C6 witness: an "idle" emission resolves a pending onIdle() promise.
C6_Witness ==
    \E i \in 1..Len(emitted) :
        emitted[i].event = "idle" /\ emitted[i].listeners > 0

\* C7: a pending onEmpty() promise is eventually resolved once the waiting
\* sequence is empty.
C7_OnEmptyResolves ==
    (emptyListeners > 0 /\ Len(taskQueue) = 0) ~> (emptyListeners = 0)

C10_ClearedNeverRun ==
    [][/\ lastOp' = "clear" => (taskQueue' = <<>> /\ Waiting \subseteq Discarded')
       /\ \A t \in Discarded :
             /\ t \in Discarded'
             /\ future[t] = Pending
             /\ future'[t] = Pending
             /\ operation'[t] = NotCreated
      ]_vars

\* C10 witness: a task was discarded by clear() and a task submitted after
\* it has settled.
C10_Witness ==
    \E t \in Discarded : \E u \in Tasks : u > t /\ IsSettled(u)

\* C11: a handler that leaves the queue paused (pause() itself, and every
\* add() and settlement while it is paused, from construction with
\* autoStart = false or after pause()) starts no task; pause() leaves the
\* queue paused; a task running while the queue is paused still settles
\* its future and releases its slot.
C11_PausedStartsNothing ==
    [][/\ lastOp' = "pause" => paused'
       /\ paused' =>
             /\ Len(started') = 0
             /\ \A t \in Tasks : runTaskPc[t] = "notcalled" =>
                                     runTaskPc'[t] = "notcalled"
             /\ Len(taskQueue') >= Len(taskQueue) \/ lastOp' = "clear"
       /\ \A t \in Tasks :
             (paused /\ runTaskPc[t] = "await" /\ runTaskPc'[t] = "done") =>
                 /\ future'[t].state # "pending"
                 /\ runningTasks' = runningTasks - 1
      ]_vars

\* C11 witness: a task has settled on a paused queue that keeps a task
\* waiting below the concurrency limit.
C11_Witness ==
    /\ paused
    /\ lastOp = "runTaskResumes"
    /\ Len(taskQueue) > 0
    /\ runningTasks < concurrency

\* C12: when runTask() resumes on a fulfilled promise, the future of the
\* task is resolved with exactly the value its operation resolved with, the
\* task's own result, and one "completed" is emitted, carrying that value.
C12_ResultRoundTrip ==
    [][\A t \in Tasks :
          (runTaskPc[t] = "await" /\ runTaskPc'[t] = "done"
              /\ operation[t].state = "fulfilled" /\ timer[t] # "fired") =>
              /\ operation[t].value = ResultOf(t)
              /\ future'[t] = Fulfilled(operation[t].value)
              /\ Cardinality({i \in 1..Len(emitted') :
                                 emitted'[i].event = "completed"}) = 1
              /\ \A i \in 1..Len(emitted') :
                    /\ emitted'[i].event = "completed" =>
                          emitted'[i].arg = operation[t].value
                    /\ emitted'[i].event # "error"
      ]_vars

\* C12 witness: with a timeout configured, two tasks have resolved their
\* futures, each with its own result.
C12_Witness ==
    /\ timeout > 0
    /\ \E t, u \in Tasks :
          /\ t # u
          /\ future[t] = Fulfilled(ResultOf(t))
          /\ future[u] = Fulfilled(ResultOf(u))

\* C13: start() on a queue that is not paused changes neither paused, nor
\* the waiting sequence, nor runningTasks, nor any task, and starts no task.
C13_StartIdempotent ==
    [][(~paused /\ lastOp' = "start") =>
          /\ UNCHANGED <<paused, taskQueue, runningTasks, future, operation,
                         wrapper, timer, runTaskPc, idleListeners,
                         emptyListeners>>
          /\ Len(started') = 0
          /\ Len(emitted') = 0
      ]_vars

\* C13 witness: start() has returned on a queue that is not paused and
\* keeps a task waiting below the concurrency limit, which a start() that
\* dispatched would not leave behind.
C13_Witness ==
    /\ lastOp = "start"
    /\ ~paused
    /\ Len(taskQueue) > 0
    /\ runningTasks < concurrency

\* C14: the waiting sequence is in non-decreasing priority order, and its
\* entries of equal priority are in submission order.
C14_SortedStable ==
    \A i, j \in 1..Len(taskQueue) :
        i < j =>
            /\ taskQueue[i].priority <= taskQueue[j].priority
            /\ taskQueue[i].priority = taskQueue[j].priority =>
                  taskQueue[i].task < taskQueue[j].task

\* C14 witness: three entries wait, two of them of equal priority behind
\* a later submitted entry of smaller priority value.
C14_Witness ==
    /\ Len(taskQueue) = 3
    /\ taskQueue[2].priority = taskQueue[3].priority
    /\ taskQueue[1].priority < taskQueue[2].priority
    /\ taskQueue[1].task > taskQueue[3].task

\* The handler of the last step is a resumption of runTask() for task t.
SettlesIn(t) == runTaskPc[t] = "await" /\ runTaskPc'[t] = "done"

\* C15 as stated: when "completed" or "error" is emitted for a task,
\* runningTasks no longer counts the task.
C15_Original ==
    [][\A t \in Tasks : SettlesIn(t) =>
          \A i \in 1..Len(emitted') :
              emitted'[i].event \in {"completed", "error"} =>
                  emitted'[i].runningTasks = runningTasks - 1
      ]_vars

\* C15 amended: on a task's settlement "completed" or "error" is emitted
\* first, while runningTasks still counts the task and the waiting
\* sequence is untouched; then runningTasks is decremented; then dispatch
\* runs, each "active" counting from the decremented value; then "idle" is
\* emitted if and only if the queue is idle; then "next".
C15_SettlementOrder ==
    [][\A t \in Tasks : SettlesIn(t) =>
          LET n == Len(emitted')
              k == Len(started')
          IN  /\ n >= 2
              /\ emitted'[1].event \in {"completed", "error"}
              /\ emitted'[1].runningTasks = runningTasks
              /\ emitted'[1].waiting = Len(taskQueue)
              /\ \A i \in 2..(k + 1) :
                    /\ emitted'[i].event = "active"
                    /\ emitted'[i].runningTasks = (runningTasks - 1) + (i - 1)
                    /\ emitted'[i].waiting = Len(taskQueue) - (i - 1)
              /\ n \in {k + 2, k + 3}
              /\ n = k + 3 <=> (Len(taskQueue') = 0 /\ runningTasks' = 0)
              /\ n = k + 3 =>
                    /\ emitted'[k + 2].event = "idle"
                    /\ emitted'[k + 2].runningTasks = 0
                    /\ emitted'[k + 2].waiting = 0
              /\ emitted'[n].event = "next"
              /\ emitted'[n].runningTasks = runningTasks'
              /\ runningTasks' = (runningTasks - 1) + k
              /\ (~paused /\ Len(taskQueue') > 0) => runningTasks' = concurrency
      ]_vars

\* C15 witness: the handler of a settlement has emitted "completed" while
\* the limit was reached, then started the waiting task in the freed slot.
C15_Witness ==
    /\ lastOp = "runTaskResumes"
    /\ Len(emitted) = 3
    /\ emitted[1].event = "completed"
    /\ emitted[1].runningTasks = concurrency
    /\ emitted[2].event = "active"
    /\ emitted[2].runningTasks = concurrency

\* C16: runTask() moves a task from not called to awaiting to done and
\* never back; the future of a task is settled in the step that ends its
\* runTask() and never changes afterwards; that step emits exactly one of
\* "completed" and "error" and releases one slot; no other step emits
\* either or releases a slot, in particular not the settlement of an
\* operation whose timeout has fired.
C16_SettlesOnce ==
    [][/\ \A t \in Tasks :
             /\ runTaskPc'[t] # runTaskPc[t] =>
                   \/ runTaskPc[t] = "notcalled" /\ runTaskPc'[t] = "await"
                   \/ runTaskPc[t] = "await" /\ runTaskPc'[t] = "done"
             /\ future[t].state # "pending" =>
                   (future'[t] = future[t] /\ runTaskPc[t] = "done")
             /\ future'[t].state # "pending" => runTaskPc'[t] = "done"
             /\ runTaskPc'[t] = "done" =>
                   future'[t] \in {Fulfilled(ResultOf(t)), Rejected(ErrorOf(t)),
                                   Rejected(TimeoutError)}
       /\ LET ended == {t \in Tasks : SettlesIn(t)}
              outcomes == {i \in 1..Len(emitted') :
                              emitted'[i].event \in {"completed", "error"}}
          IN  /\ Cardinality(ended) <= 1
              /\ vars' # vars => Cardinality(outcomes) = Cardinality(ended)
              /\ runningTasks' =
                    runningTasks - Cardinality(ended) + Len(started')
      ]_vars

\* C16 witness: a future was rejected by the timeout and the operation of
\* its task has resolved afterwards.
C16_Witness ==
    \E t \in Tasks :
        /\ runTaskPc[t] = "done"
        /\ future[t] = Rejected(TimeoutError)
        /\ operation[t].state = "fulfilled"
        /\ lastOp = "operationSettles"

\* C18: after every handler, on a queue that is not paused with a task
\* waiting, runningTasks equals the concurrency limit.
C18_WorkConserving ==
    (~paused /\ Len(taskQueue) > 0) => runningTasks = concurrency

\* The operations that were invoked and have not settled.
PendingOperations == {t \in Tasks : operation[t].state = "pending"}

\* C19 as stated: the operations invoked and not yet settled never
\* outnumber the concurrency limit.
C19_Original == Cardinality(PendingOperations) <= concurrency

\* C19 amended: the operations invoked and not yet settled whose deadline
\* has not fired never outnumber the concurrency limit; an operation whose
\* deadline fired is not counted once its slot is released and may still
\* be executing.
C19_UnexpiredOperationsBounded ==
    /\ Cardinality({t \in PendingOperations : timer[t] # "fired"}) <= concurrency
    /\ \A t \in PendingOperations : timer[t] # "fired" => t \in InFlight
    /\ timeout = 0 => Cardinality(PendingOperations) <= concurrency

\* C19 witness: with a timeout, more operations are pending than the
\* limit allows to run, the limit being reached by unexpired ones.
C19_Witness ==
    /\ timeout > 0
    /\ Cardinality(PendingOperations) > concurrency
    /\ Cardinality({t \in PendingOperations : timer[t] # "fired"}) = concurrency

\* C20: runningTasks is not negative and is the number of tasks passed to
\* runTask() whose runTask() has not ended; a step changes it by the
\* number of tasks it starts less the task whose runTask() it ends, and
\* only add(), start() and a resumption of runTask() start tasks.
C20_RunningTasksCounts ==
    [][/\ runningTasks >= 0
       /\ runningTasks = Cardinality(InFlight)
       /\ runningTasks' = Cardinality(InFlight')
       /\ runningTasks' = runningTasks + Len(started')
                             - Cardinality({t \in Tasks : SettlesIn(t)})
       /\ Len(started') = Cardinality(InFlight' \ InFlight)
       /\ lastOp' \notin {"add", "start", "runTaskResumes"} =>
             (runningTasks' = runningTasks /\ Len(started') = 0)
       /\ lastOp' \in {"add", "start"} =>
             runningTasks' = runningTasks + Len(started')
      ]_vars

\* C20 witness: tasks have been started and have ended, one is running
\* and the counter is 1.
C20_Witness ==
    /\ runningTasks = 1
    /\ Cardinality(InFlight) = 1
    /\ \E t \in Tasks : runTaskPc[t] = "done"
    /\ lastOp = "clear"

====
